---- MODULE Spec2Model ----
(***************************************************************************)
(* Calendar-System: the CalendarService event store (calendar_service.cpp) *)
(* called from several threads, and the concurrency demonstration of the   *)
(* command line (main.cpp, CLI::handleDemo).                               *)
(*                                                                         *)
(* events_ is a std::set<Event, EventComparator>; it is modelled as the    *)
(* sequence of its elements in iteration order, iterators as positions     *)
(* 1..Len+1 (Len+1 is end()).  Every public operation is split into the    *)
(* steps a thread takes: the call, the lock acquisition, the work done     *)
(* under the lock and the return, which releases the lock_guard.           *)
(***************************************************************************)
EXTENDS Integers, Sequences, FiniteSets, TLC

\* ---------------------------------------------------------------- bounds
MaxTime == 2
MaxId == 2
MaxCliTime == 4
MaxCliId == 4
MaxNow == 1
MaxFairTime == 1
MaxFairId == 2
MaxDay == 7

\* handleDemo: start = now + 3600, end = start + 1800
DemoDelay == 3600
DemoDuration == 1800

\* instants concurrent callers pass, instants the single caller of the program
\* passes (around the interval of the demonstration), readings of time(nullptr)
Time == 0..MaxTime
CliTime == {DemoDelay - 1 + i : i \in 0..MaxCliTime}
DemoClock == 0..MaxNow
FairTime == 0..MaxFairTime
\* the thread of CLI::run, and the two threads CLI::handleDemo starts
MainThread == 0
NumThreads == 2
Threads == 1..NumThreads
AllThreads == {MainThread} \cup Threads
Titles == {"A"}

\* the mutex value when no thread owns it (not a thread)
Unlocked == 0 - 1
\* the failure value of createEvent
Failure == 0 - 1

VARIABLES
    events_,          \* std::set<Event, EventComparator>, in iteration order
    next_event_id_,   \* int next_event_id_
    calendar_mutex_,  \* owner of std::mutex calendar_mutex_, or Unlocked
    pc,               \* pc[t]: where thread t is
    arg,              \* arg[t]: the arguments of the call thread t is in
    local,            \* local[t]: the locals of that call
    ret,              \* ret[t]: the value the call returned
    demo,             \* CLI::handleDemo: its phase, success_count, failure_count
    seen,             \* history: events_ and next_event_id_ as thread t found them
                      \* when it took the lock
    issued,           \* history: the identifiers getNextEventId returned, in order
    cli               \* CLI::handleCreate and CLI::handleListWeek: the command being
                      \* handled, its tokens and the instants computed from them

vars == <<events_, next_event_id_, calendar_mutex_, pc, arg, local, ret, demo, seen, issued,
          cli>>

\* ------------------------------------------------------------ event.h
\* a constructor that takes the two times in the other order
Event_swapped(event_id, event_title, start, end) ==
    [id |-> event_id, title |-> event_title, start_utc |-> end, end_utc |-> start]

Event(event_id, event_title, start, end) ==
    [id |-> event_id, title |-> event_title, start_utc |-> start, end_utc |-> end]

\* a comparator that orders by identifier alone
EventComparator_byId(a, b) == a.id < b.id

EventComparator(a, b) ==
    IF a.start_utc # b.start_utc
    THEN a.start_utc < b.start_utc
    ELSE a.id < b.id

\* ------------------------------------------------- std::set operations
\* first position whose element is not less than key, Len+1 for end()
lower_bound(ev, key) ==
    IF \E i \in 1..Len(ev) : ~EventComparator(ev[i], key)
    THEN CHOOSE i \in 1..Len(ev) :
            /\ ~EventComparator(ev[i], key)
            /\ \A j \in 1..(i - 1) : EventComparator(ev[j], key)
    ELSE Len(ev) + 1

\* a container that keeps insertion order
insert_back(ev, x) == Append(ev, x)

\* std::set::insert: no insertion when an equivalent element is present
insert(ev, x) ==
    LET k == lower_bound(ev, x) IN
    IF k <= Len(ev) /\ ~EventComparator(x, ev[k])
    THEN ev
    ELSE SubSeq(ev, 1, k - 1) \o <<x>> \o SubSeq(ev, k, Len(ev))

\* erase that removes nothing
erase_nothing(ev, it) == ev

\* erase that drops everything from the position on
erase_toEnd(ev, it) == SubSeq(ev, 1, it - 1)

\* std::set::erase(iterator)
erase(ev, it) == SubSeq(ev, 1, it - 1) \o SubSeq(ev, it + 1, Len(ev))

\* ------------------------------------------------ calendar_service.cpp
\* hasConflict without the check of the event before the insertion position
hasConflict_afterOnly(ev, start_utc, end_utc) ==
    LET search_event == Event(0, "", start_utc, end_utc)
        it == lower_bound(ev, search_event)
    IN  /\ it # Len(ev) + 1
        /\ start_utc < ev[it].end_utc /\ end_utc > ev[it].start_utc

\* hasConflict without the check of the event at the insertion position
hasConflict_beforeOnly(ev, start_utc, end_utc) ==
    LET search_event == Event(0, "", start_utc, end_utc)
        it == lower_bound(ev, search_event)
    IN  /\ it # 1
        /\ start_utc < ev[it - 1].end_utc /\ end_utc > ev[it - 1].start_utc

\* hasConflict with closed intervals: <= and >= for < and >
hasConflict_closed(ev, start_utc, end_utc) ==
    LET search_event == Event(0, "", start_utc, end_utc)
        it == lower_bound(ev, search_event)
    IN  \/ /\ it # Len(ev) + 1
           /\ start_utc <= ev[it].end_utc /\ end_utc >= ev[it].start_utc
        \/ /\ it # 1
           /\ start_utc <= ev[it - 1].end_utc /\ end_utc >= ev[it - 1].start_utc

\* hasConflict comparing the new end with the existing end instead of the start
hasConflict_endForStart(ev, start_utc, end_utc) ==
    LET search_event == Event(0, "", start_utc, end_utc)
        it == lower_bound(ev, search_event)
    IN  \/ /\ it # Len(ev) + 1
           /\ start_utc < ev[it].end_utc /\ end_utc > ev[it].end_utc
        \/ /\ it # 1
           /\ start_utc < ev[it - 1].end_utc /\ end_utc > ev[it - 1].end_utc

hasConflict(ev, start_utc, end_utc) ==
    LET search_event == Event(0, "", start_utc, end_utc)
        it == lower_bound(ev, search_event)
    IN  \/ /\ it # Len(ev) + 1
           /\ start_utc < ev[it].end_utc /\ end_utc > ev[it].start_utc
        \/ /\ it # 1
           /\ start_utc < ev[it - 1].end_utc /\ end_utc > ev[it - 1].start_utc

\* a search that stops at the first identifier not below the one asked for
findEventById_notBelow(ev, event_id) ==
    IF \E i \in 1..Len(ev) : ev[i].id >= event_id
    THEN CHOOSE i \in 1..Len(ev) :
            /\ ev[i].id >= event_id
            /\ \A j \in 1..(i - 1) : ev[j].id < event_id
    ELSE Len(ev) + 1

\* position of the first element whose id is event_id, Len+1 for end()
findEventById(ev, event_id) ==
    IF \E i \in 1..Len(ev) : ev[i].id = event_id
    THEN CHOOSE i \in 1..Len(ev) :
            /\ ev[i].id = event_id
            /\ \A j \in 1..(i - 1) : ev[j].id # event_id
    ELSE Len(ev) + 1

\* the while loop of getWeeklyEvents, from position it
RECURSIVE collectWhile(_, _, _)
collectWhile(ev, it, week_end_utc) ==
    IF it # Len(ev) + 1 /\ ev[it].start_utc < week_end_utc
    THEN <<ev[it]>> \o collectWhile(ev, it + 1, week_end_utc)
    ELSE <<>>

weeklyEvents(ev, week_start_utc, week_end_utc) ==
    LET search_start == Event(0, "", week_start_utc, week_start_utc)
        it == lower_bound(ev, search_start)
        before == IF it # 1 /\ ev[it - 1].end_utc > week_start_utc
                  THEN <<ev[it - 1]>>
                  ELSE <<>>
    IN  before \o collectWhile(ev, it, week_end_utc)

\* a loop that stops one element short of end()
allEvents_butLast(ev, it) == SubSeq(ev, it, Len(ev) - 1)

\* the range-for of getAllEvents
RECURSIVE allEvents(_, _)
allEvents(ev, it) ==
    IF it # Len(ev) + 1
    THEN <<ev[it]>> \o allEvents(ev, it + 1)
    ELSE <<>>


\* ------------------------------------------------------- thread frames
NoArg == [op |-> "none", title |-> "", start_utc |-> 0, end_utc |-> 0, event_id |-> 0]
\* Event(): the element a frame holds before it holds one
NoEvent == Event(0, "", 0, 0)
\* erased remembers the element that events_.erase(it) removed
NoLocal == [conflict |-> FALSE, event_id |-> 0, it |-> 0, erased |-> NoEvent]
NoRet == [int |-> 0, bool |-> FALSE, list |-> <<>>]
NoSeen == [events |-> <<>>, next |-> 0]
NoDemo == [phase |-> "off", success_count |-> 0, failure_count |-> 0, before |-> <<>>]
NoDate == [year |-> 0, month |-> 0, day |-> 0]
NoClock == [hour |-> 0, minute |-> 0]
NoCli == [step |-> "prompt", date |-> NoDate, start_time |-> NoClock, end_time |-> NoClock,
          tz |-> "", start_utc |-> 0, end_utc |-> 0, first_end_utc |-> 0,
          week_start_utc |-> 0, week_end_utc |-> 0]

\* calls of createEvent that may still take an identifier
pendingCreates ==
    Cardinality({t \in AllThreads :
                    pc[t] \in {"create_validate", "create_lock", "create_check",
                               "create_checked"}})

\* Which thread runs: any client thread when the service is used as a library
\* (phase "off", and "fair" for its small instance); in the program, the thread of CLI::run until handleDemo
\* starts its two threads, which run while CLI::run waits in join().
mayRun(t) ==
    CASE demo.phase \in {"off", "fair"} -> t \in Threads
      [] demo.phase = "cli" -> t = MainThread
      [] demo.phase = "running" -> t \in Threads /\ t <= 2
      [] OTHER -> FALSE

mayCall(t) == mayRun(t) /\ demo.phase \in {"off", "fair", "cli"}

\* the instants thread t passes to createEvent and getWeeklyEvents
Instants(t) ==
    IF t = MainThread THEN CliTime
    ELSE IF demo.phase = "fair" THEN FairTime ELSE Time

\* the model stops issuing identifiers at IdCap
IdCap ==
    CASE demo.phase = "off" -> MaxId
      [] demo.phase = "fair" -> MaxFairId
      [] OTHER -> MaxCliId

\* identifiers a caller passes to deleteEvent: negative, zero, issued, not yet issued
DeleteIds == (0 - 1)..IdCap

InitService ==
    /\ events_ = <<>>
    /\ next_event_id_ = 1
    /\ calendar_mutex_ = Unlocked
    /\ pc = [t \in AllThreads |-> "idle"]
    /\ arg = [t \in AllThreads |-> NoArg]
    /\ local = [t \in AllThreads |-> NoLocal]
    /\ ret = [t \in AllThreads |-> NoRet]
    /\ seen = [t \in AllThreads |-> NoSeen]
    /\ issued = <<>>

Init == InitService /\ demo = NoDemo /\ cli = NoCli

\* a lock that never waits
lockAcquirable_noWait(t) == TRUE

\* std::lock_guard<std::mutex> lock(calendar_mutex_): blocks until the mutex is free
lockAcquirable(t) == calendar_mutex_ = Unlocked

\* a lock_guard that does not take the mutex
Lock_notTaken(t, to) ==
    /\ seen' = [seen EXCEPT ![t] = [events |-> events_, next |-> next_event_id_]]
    /\ pc' = [pc EXCEPT ![t] = to]
    /\ UNCHANGED <<events_, next_event_id_, calendar_mutex_, arg, local, ret, demo, issued, cli>>

\* the constructor of the lock_guard; the call goes on at position to
Lock(t, to) ==
    /\ lockAcquirable(t)
    /\ calendar_mutex_' = t
    /\ seen' = [seen EXCEPT ![t] = [events |-> events_, next |-> next_event_id_]]
    /\ pc' = [pc EXCEPT ![t] = to]
    /\ UNCHANGED <<events_, next_event_id_, arg, local, ret, demo, issued, cli>>

\* a return path that leaves the mutex locked
Unlock_keep(t) ==
    /\ pc[t] = "unlock"
    /\ mayRun(t)
    /\ seen' = [seen EXCEPT ![t] = NoSeen]
    /\ pc' = [pc EXCEPT ![t] = "returned"]
    /\ UNCHANGED <<events_, next_event_id_, calendar_mutex_, arg, local, ret, demo, issued, cli>>

\* the destructor of the lock_guard, which runs after the return value is set
Unlock(t) ==
    /\ pc[t] = "unlock"
    /\ mayRun(t)
    /\ calendar_mutex_' = IF calendar_mutex_ = t THEN Unlocked ELSE calendar_mutex_
    /\ seen' = [seen EXCEPT ![t] = NoSeen]
    /\ pc' = [pc EXCEPT ![t] = "returned"]
    /\ UNCHANGED <<events_, next_event_id_, arg, local, ret, demo, issued, cli>>

\* --------------------------------------------------------- createEvent
CallCreate(t) ==
    /\ pc[t] = "idle"
    /\ mayCall(t)
    /\ next_event_id_ + pendingCreates <= IdCap
    /\ \E title \in Titles, s \in Instants(t), e \in Instants(t) :
          arg' = [arg EXCEPT ![t] = [NoArg EXCEPT !.op = "createEvent", !.title = title,
                                                  !.start_utc = s, !.end_utc = e]]
    /\ pc' = [pc EXCEPT ![t] = "create_validate"]
    /\ UNCHANGED <<events_, next_event_id_, calendar_mutex_, local, ret, demo, seen, issued, cli>>

\* no validation of the times
invalidTimes_none(start_utc, end_utc) == FALSE

\* the validation with > for >=
invalidTimes_strict(start_utc, end_utc) == start_utc > end_utc

\* if (start_utc >= end_utc)
invalidTimes(start_utc, end_utc) == start_utc >= end_utc

CreateValidate(t) ==
    /\ pc[t] = "create_validate"
    /\ mayRun(t)
    /\ IF invalidTimes(arg[t].start_utc, arg[t].end_utc)
       THEN /\ ret' = [ret EXCEPT ![t].int = Failure]
            /\ pc' = [pc EXCEPT ![t] = "returned"]
       ELSE /\ pc' = [pc EXCEPT ![t] = "create_lock"]
            /\ UNCHANGED ret
    /\ UNCHANGED <<events_, next_event_id_, calendar_mutex_, arg, local, demo, seen, issued, cli>>

CreateLock(t) ==
    /\ pc[t] = "create_lock"
    /\ mayRun(t)
    /\ Lock(t, "create_check")

CreateCheck(t) ==
    /\ pc[t] = "create_check"
    /\ mayRun(t)
    /\ local' = [local EXCEPT ![t].conflict =
                    hasConflict(events_, arg[t].start_utc, arg[t].end_utc)]
    /\ pc' = [pc EXCEPT ![t] = "create_checked"]
    /\ UNCHANGED <<events_, next_event_id_, calendar_mutex_, arg, ret, demo, seen, issued, cli>>

\* return -1 on a conflict
CreateConflict(t) ==
    /\ pc[t] = "create_checked"
    /\ mayRun(t)
    /\ local[t].conflict
    /\ ret' = [ret EXCEPT ![t].int = Failure]
    /\ pc' = [pc EXCEPT ![t] = "unlock"]
    /\ UNCHANGED <<events_, next_event_id_, calendar_mutex_, arg, local, demo, seen, issued, cli>>

\* an allocator that hands out the smallest identifier no stored event carries
getNextEventId_reuse ==
    [value |-> CHOOSE n \in 1..(Len(events_) + 1) :
                  /\ \A i \in 1..Len(events_) : events_[i].id # n
                  /\ \A m \in 1..(n - 1) : \E i \in 1..Len(events_) : events_[i].id = m,
     next |-> next_event_id_ + 1]

\* return ++next_event_id_
getNextEventId_preIncrement ==
    [value |-> next_event_id_ + 1, next |-> next_event_id_ + 1]

\* return next_event_id_++
getNextEventId == [value |-> next_event_id_, next |-> next_event_id_ + 1]

CreateAllocate(t) ==
    /\ pc[t] = "create_checked"
    /\ mayRun(t)
    /\ ~local[t].conflict
    /\ local' = [local EXCEPT ![t].event_id = getNextEventId.value]
    /\ next_event_id_' = getNextEventId.next
    /\ issued' = Append(issued, getNextEventId.value)
    /\ pc' = [pc EXCEPT ![t] = "create_insert"]
    /\ UNCHANGED <<events_, calendar_mutex_, arg, ret, demo, seen, cli>>

\* events_.insert(new_event); return event_id
CreateInsert(t) ==
    /\ pc[t] = "create_insert"
    /\ mayRun(t)
    /\ LET new_event == Event(local[t].event_id, arg[t].title,
                              arg[t].start_utc, arg[t].end_utc)
       IN  events_' = insert(events_, new_event)
    /\ ret' = [ret EXCEPT ![t].int = local[t].event_id]
    /\ pc' = [pc EXCEPT ![t] = "unlock"]
    /\ UNCHANGED <<next_event_id_, calendar_mutex_, arg, local, demo, seen, issued, cli>>

\* --------------------------------------------------------- deleteEvent
CallDelete(t) ==
    /\ pc[t] = "idle"
    /\ mayCall(t)
    /\ \E id \in DeleteIds :
          arg' = [arg EXCEPT ![t] = [NoArg EXCEPT !.op = "deleteEvent", !.event_id = id]]
    /\ pc' = [pc EXCEPT ![t] = "delete_lock"]
    /\ UNCHANGED <<events_, next_event_id_, calendar_mutex_, local, ret, demo, seen, issued, cli>>

DeleteLock(t) ==
    /\ pc[t] = "delete_lock"
    /\ mayRun(t)
    /\ Lock(t, "delete_find")

DeleteFind(t) ==
    /\ pc[t] = "delete_find"
    /\ mayRun(t)
    /\ local' = [local EXCEPT ![t].it = findEventById(events_, arg[t].event_id)]
    /\ pc' = [pc EXCEPT ![t] = "delete_found"]
    /\ UNCHANGED <<events_, next_event_id_, calendar_mutex_, arg, ret, demo, seen, issued, cli>>

\* erase and return true, or return false
DeleteErase(t) ==
    /\ pc[t] = "delete_found"
    /\ mayRun(t)
    /\ IF local[t].it # Len(events_) + 1
       THEN /\ events_' = erase(events_, local[t].it)
            /\ local' = [local EXCEPT ![t].erased = events_[local[t].it]]
            /\ ret' = [ret EXCEPT ![t].bool = TRUE]
       ELSE /\ ret' = [ret EXCEPT ![t].bool = FALSE]
            /\ UNCHANGED <<events_, local>>
    /\ pc' = [pc EXCEPT ![t] = "unlock"]
    /\ UNCHANGED <<next_event_id_, calendar_mutex_, arg, demo, seen, issued, cli>>

\* ----------------------------------------------------- getWeeklyEvents
CallWeekly(t) ==
    /\ pc[t] = "idle"
    /\ mayCall(t)
    /\ \E ws \in Instants(t), we \in Instants(t) :
          arg' = [arg EXCEPT ![t] = [NoArg EXCEPT !.op = "getWeeklyEvents",
                                                  !.start_utc = ws, !.end_utc = we]]
    /\ pc' = [pc EXCEPT ![t] = "weekly_lock"]
    /\ UNCHANGED <<events_, next_event_id_, calendar_mutex_, local, ret, demo, seen, issued, cli>>

WeeklyLock(t) ==
    /\ pc[t] = "weekly_lock"
    /\ mayRun(t)
    /\ Lock(t, "weekly_collect")

WeeklyCollect(t) ==
    /\ pc[t] = "weekly_collect"
    /\ mayRun(t)
    /\ ret' = [ret EXCEPT ![t].list = weeklyEvents(events_, arg[t].start_utc, arg[t].end_utc)]
    /\ pc' = [pc EXCEPT ![t] = "unlock"]
    /\ UNCHANGED <<events_, next_event_id_, calendar_mutex_, arg, local, demo, seen, issued, cli>>

\* -------------------------------------------------------- getAllEvents
CallAll(t) ==
    /\ pc[t] = "idle"
    /\ mayCall(t)
    /\ arg' = [arg EXCEPT ![t] = [NoArg EXCEPT !.op = "getAllEvents"]]
    /\ pc' = [pc EXCEPT ![t] = "all_lock"]
    /\ UNCHANGED <<events_, next_event_id_, calendar_mutex_, local, ret, demo, seen, issued, cli>>

AllLock(t) ==
    /\ pc[t] = "all_lock"
    /\ mayRun(t)
    /\ Lock(t, "all_collect")

AllCollect(t) ==
    /\ pc[t] = "all_collect"
    /\ mayRun(t)
    /\ ret' = [ret EXCEPT ![t].list = allEvents(events_, 1)]
    /\ pc' = [pc EXCEPT ![t] = "unlock"]
    /\ UNCHANGED <<events_, next_event_id_, calendar_mutex_, arg, local, demo, seen, issued, cli>>

\* ---------------------------------------------- the caller takes the result
Resume(t) ==
    /\ pc[t] = "returned"
    /\ mayCall(t)
    /\ pc' = [pc EXCEPT ![t] = "idle"]
    /\ arg' = [arg EXCEPT ![t] = NoArg]
    /\ local' = [local EXCEPT ![t] = NoLocal]
    /\ ret' = [ret EXCEPT ![t] = NoRet]
    /\ UNCHANGED <<events_, next_event_id_, calendar_mutex_, demo, seen, issued, cli>>

\* ---------------------------------------------------- CLI::handleDemo
demoTitle(t) == IF t = 1 THEN "Thread 1 Event" ELSE "Thread 2 Event"

\* std::thread t1, t2: each reads the clock and calls createEvent
DemoStart ==
    /\ demo.phase = "cli"
    /\ pc[MainThread] = "idle"
    /\ next_event_id_ + 1 <= IdCap
    /\ \E now1 \in DemoClock, now2 \in DemoClock :
          arg' = [arg EXCEPT
                    ![1] = [NoArg EXCEPT !.op = "createEvent", !.title = demoTitle(1),
                                         !.start_utc = now1 + DemoDelay,
                                         !.end_utc = now1 + DemoDelay + DemoDuration],
                    ![2] = [NoArg EXCEPT !.op = "createEvent", !.title = demoTitle(2),
                                         !.start_utc = now2 + DemoDelay,
                                         !.end_utc = now2 + DemoDelay + DemoDuration]]
    /\ pc' = [pc EXCEPT ![1] = "create_validate", ![2] = "create_validate"]
    /\ demo' = [phase |-> "running", success_count |-> 0, failure_count |-> 0,
                before |-> events_]
    /\ UNCHANGED <<events_, next_event_id_, calendar_mutex_, local, ret, seen, issued, cli>>

\* if (event_id != -1) success_count++; else failure_count++;
DemoCount(t) ==
    /\ demo.phase = "running"
    /\ t \in Threads
    /\ pc[t] = "returned"
    /\ demo' = IF ret[t].int # Failure
               THEN [demo EXCEPT !.success_count = @ + 1]
               ELSE [demo EXCEPT !.failure_count = @ + 1]
    /\ pc' = [pc EXCEPT ![t] = "finished"]
    /\ UNCHANGED <<events_, next_event_id_, calendar_mutex_, arg, local, ret, seen, issued, cli>>

\* t1.join(); t2.join(); the result line is printed
DemoJoin ==
    /\ demo.phase = "running"
    /\ pc[1] = "finished" /\ pc[2] = "finished"
    /\ demo' = [demo EXCEPT !.phase = "joined"]
    /\ UNCHANGED <<events_, next_event_id_, calendar_mutex_, pc, arg, local, ret, seen, issued, cli>>

\* handleDemo returns to the loop of CLI::run
DemoReturn ==
    /\ demo.phase = "joined"
    /\ demo' = [NoDemo EXCEPT !.phase = "cli"]
    /\ pc' = [pc EXCEPT ![1] = "idle", ![2] = "idle"]
    /\ arg' = [arg EXCEPT ![1] = NoArg, ![2] = NoArg]
    /\ local' = [local EXCEPT ![1] = NoLocal, ![2] = NoLocal]
    /\ ret' = [ret EXCEPT ![1] = NoRet, ![2] = NoRet]
    /\ UNCHANGED <<events_, next_event_id_, calendar_mutex_, seen, issued, cli>>

Next ==
    \E t \in AllThreads :
        \/ CallCreate(t)
        \/ CreateValidate(t)
        \/ CreateLock(t)
        \/ CreateCheck(t)
        \/ CreateConflict(t)
        \/ CreateAllocate(t)
        \/ CreateInsert(t)
        \/ CallDelete(t)
        \/ DeleteLock(t)
        \/ DeleteFind(t)
        \/ DeleteErase(t)
        \/ CallWeekly(t)
        \/ WeeklyLock(t)
        \/ WeeklyCollect(t)
        \/ CallAll(t)
        \/ AllLock(t)
        \/ AllCollect(t)
        \/ Unlock(t)
        \/ Resume(t)

Spec == Init /\ [][Next]_vars

\* The program: CLI::run issues calls one at a time and runs the demonstration.
InitDemo == InitService /\ demo = [NoDemo EXCEPT !.phase = "cli"] /\ cli = NoCli

NextDemo ==
    \/ Next
    \/ DemoStart
    \/ \E t \in Threads : DemoCount(t)
    \/ DemoJoin
    \/ DemoReturn

SpecDemo == InitDemo /\ [][NextDemo]_vars

\* Scheduling. A thread inside a call keeps running: the steps of a call that
\* do not wait are taken if they stay possible (the operating system runs every
\* runnable thread), and a thread waiting in the constructor of the lock_guard
\* obtains the mutex if it is free again and again. Whether a client calls at
\* all, and when it calls again, is its own choice.
LockStep(t) == CreateLock(t) \/ DeleteLock(t) \/ WeeklyLock(t) \/ AllLock(t)

BodyStep(t) ==
    \/ CreateValidate(t) \/ CreateCheck(t) \/ CreateConflict(t)
    \/ CreateAllocate(t) \/ CreateInsert(t)
    \/ DeleteFind(t) \/ DeleteErase(t)
    \/ WeeklyCollect(t)
    \/ AllCollect(t)
    \/ Unlock(t)

Fairness == \A t \in Threads : WF_vars(BodyStep(t)) /\ SF_vars(LockStep(t))

\* the library mode over the instants FairTime, under this scheduling
InitFair == InitService /\ demo = [NoDemo EXCEPT !.phase = "fair"] /\ cli = NoCli

SpecFair == InitFair /\ [][Next]_vars /\ Fairness

\* The service as its header declares it: getNextEventId is a public member
\* and takes no lock, so a client thread may call it at any time.
pendingNextIds ==
    Cardinality({t \in AllThreads : pc[t] \in {"nextid_read", "nextid_write"}})

\* service.getNextEventId() called by a client
CallNextId(t) ==
    /\ pc[t] = "idle"
    /\ mayCall(t)
    /\ next_event_id_ + pendingCreates + pendingNextIds <= IdCap
    /\ arg' = [arg EXCEPT ![t] = [NoArg EXCEPT !.op = "getNextEventId"]]
    /\ pc' = [pc EXCEPT ![t] = "nextid_read"]
    /\ UNCHANGED <<events_, next_event_id_, calendar_mutex_, local, ret, demo, seen, issued, cli>>

\* next_event_id_++ without the mutex: the load of the counter
NextIdRead(t) ==
    /\ pc[t] = "nextid_read"
    /\ mayRun(t)
    /\ local' = [local EXCEPT ![t].event_id = next_event_id_]
    /\ pc' = [pc EXCEPT ![t] = "nextid_write"]
    /\ UNCHANGED <<events_, next_event_id_, calendar_mutex_, arg, ret, demo, seen, issued, cli>>

\* next_event_id_++ without the mutex: the store of the incremented value and
\* the return of the value loaded
NextIdWrite(t) ==
    /\ pc[t] = "nextid_write"
    /\ mayRun(t)
    /\ next_event_id_' = local[t].event_id + 1
    /\ ret' = [ret EXCEPT ![t].int = local[t].event_id]
    /\ issued' = Append(issued, local[t].event_id)
    /\ pc' = [pc EXCEPT ![t] = "returned"]
    /\ UNCHANGED <<events_, calendar_mutex_, arg, local, demo, seen, cli>>

NextApi ==
    \/ Next
    \/ \E t \in AllThreads : CallNextId(t)
    \/ \E t \in AllThreads : NextIdRead(t)
    \/ \E t \in AllThreads : NextIdWrite(t)

SpecApi == Init /\ [][NextApi]_vars

\* ---------------------------------------------------------- timezone.cpp
\* A date string "YYYY-MM-DD" is the record of the three numbers it spells, a
\* time string "HH:MM" the record of its two numbers.
SecondsPerDay == 86400

getOffsetSeconds(tz_str) ==
    CASE tz_str = "UTC" -> 0
      [] tz_str = "IST" -> 19800
      [] tz_str = "PST" -> 0 - 28800

isValidTimezone(tz_str) == tz_str \in {"UTC", "IST", "PST"}

\* the number of characters operator<< writes for n under setw(w), setfill('0')
width(n, w) ==
    LET digits == IF n < 10 THEN 1 ELSE IF n < 100 THEN 2
                  ELSE IF n < 1000 THEN 3 ELSE IF n < 10000 THEN 4 ELSE 5
    IN  IF digits > w THEN digits ELSE w

\* date_str.length()
dateLength(date_str) == width(date_str.year, 4) + 1 + width(date_str.month, 2) + 1
                        + width(date_str.day, 2)

parseDate(date_str) ==
    IF \/ dateLength(date_str) # 10
       \/ date_str.year < 1970
       \/ date_str.month < 1 \/ date_str.month > 12
       \/ date_str.day < 1 \/ date_str.day > 31
    THEN [ok |-> FALSE, tm_year |-> 0, tm_mon |-> 0, tm_mday |-> 0]
    ELSE [ok |-> TRUE, tm_year |-> date_str.year - 1900, tm_mon |-> date_str.month - 1,
          tm_mday |-> date_str.day]

parseTime(time_str) ==
    IF \/ time_str.hour < 0 \/ time_str.hour > 23
       \/ time_str.minute < 0 \/ time_str.minute > 59
    THEN [ok |-> FALSE, tm_hour |-> 0, tm_min |-> 0]
    ELSE [ok |-> TRUE, tm_hour |-> time_str.hour, tm_min |-> time_str.minute]

isLeap(year) == (year % 4 = 0 /\ year % 100 # 0) \/ (year % 400 = 0)

days_in_month(year) ==
    <<31, IF isLeap(year) THEN 29 ELSE 28, 31, 30, 31, 30, 31, 31, 30, 31, 30, 31>>

\* for (int y = 1970; y < year; y++)
RECURSIVE daysToYear(_)
daysToYear(year) ==
    IF year <= 1970 THEN 0
    ELSE daysToYear(year - 1) + 365 + (IF isLeap(year - 1) THEN 1 ELSE 0)

\* for (int m = 0; m < month - 1; m++)
RECURSIVE daysToMonth(_, _)
daysToMonth(year, month) ==
    IF month <= 1 THEN 0
    ELSE daysToMonth(year, month - 1) + days_in_month(year)[month - 1]

daysSinceEpoch(year, month, day) ==
    daysToYear(year) + daysToMonth(year, month) + (day - 1)

localToUTC(date_str, time_str, tz_str) ==
    LET d == parseDate(date_str)
        c == parseTime(time_str)
        days == daysSinceEpoch(d.tm_year + 1900, d.tm_mon + 1, d.tm_mday)
        utc_time == days * 24 * 3600 + c.tm_hour * 3600 + c.tm_min * 60
    IN  IF ~isValidTimezone(tz_str) \/ ~d.ok \/ ~c.ok
        THEN 0 - 1
        ELSE utc_time - getOffsetSeconds(tz_str)

\* ------------------------------------------------------------- <ctime>
\* the year that holds day number d counted from 1 January of year y
RECURSIVE yearOfDay(_, _)
yearOfDay(y, d) ==
    LET len(yy) == IF isLeap(yy) THEN 366 ELSE 365
    IN  IF d < 0 THEN yearOfDay(y - 1, d + len(y - 1))
        ELSE IF d >= len(y) THEN yearOfDay(y + 1, d - len(y))
        ELSE [year |-> y, yday |-> d]

\* the month (1..12) that holds day number d counted from the first of month m
RECURSIVE monthOfDay(_, _, _)
monthOfDay(year, m, d) ==
    IF d >= days_in_month(year)[m]
    THEN monthOfDay(year, m + 1, d - days_in_month(year)[m])
    ELSE [month |-> m, mday |-> d + 1]

\* gmtime: the broken-down UTC time of t; 1 January 1970 was a Thursday
gmtime(t) ==
    LET days == t \div SecondsPerDay
        rem == t % SecondsPerDay
        y == yearOfDay(1970, days)
        m == monthOfDay(y.year, 1, y.yday)
    IN  [tm_year |-> y.year - 1900, tm_mon |-> m.month - 1, tm_mday |-> m.mday,
         tm_hour |-> rem \div 3600, tm_min |-> (rem % 3600) \div 60, tm_sec |-> rem % 60,
         tm_wday |-> (days + 4) % 7]

\* mktime: the time_t of tm read in the zone of the process, and tm with its
\* fields brought into range. The zone of the process is taken as UTC, where
\* no daylight-saving correction moves the fields. Years from 1970 on.
mktime(tm) ==
    LET t == (daysToYear(tm.tm_year + 1900) + daysToMonth(tm.tm_year + 1900, tm.tm_mon + 1)
              + (tm.tm_mday - 1)) * SecondsPerDay
             + tm.tm_hour * 3600 + tm.tm_min * 60 + tm.tm_sec
    IN  [time |-> t, tm |-> gmtime(t)]

\* --------------------------------------------------------------- main.cpp
\* oss << setw(4) << tm_year + 1900 << "-" << setw(2) << tm_mon + 1 << "-"
\*     << setw(2) << tm_mday
formatDate(tm) == [year |-> tm.tm_year + 1900, month |-> tm.tm_mon + 1, day |-> tm.tm_mday]

Midnight == [hour |-> 0, minute |-> 0]

calculateWeekBounds(date_str, tz_str) ==
    LET date_utc == localToUTC(date_str, Midnight, tz_str)
        day_of_week == gmtime(date_utc).tm_wday
        days_to_monday == IF day_of_week = 0 THEN 6 ELSE day_of_week - 1
        week_start_utc == date_utc - days_to_monday * 24 * 3600
    IN  IF date_utc = 0 - 1
        THEN [week_start_utc |-> 0 - 1, week_end_utc |-> 0 - 1]
        ELSE [week_start_utc |-> week_start_utc,
              week_end_utc |-> week_start_utc + 7 * 24 * 3600]

\* handleCreate, "Handle case where end time is on next day": the end instant
\* passed to createEvent
rolledEnd(start_utc, end_utc, end_time_str, tz_str) ==
    IF end_utc <= start_utc
    THEN LET tm_start == gmtime(start_utc)
             next_day == mktime([tm_start EXCEPT !.tm_mday = @ + 1])
         IN  IF next_day.time # 0 - 1
             THEN localToUTC(formatDate(next_day.tm), end_time_str, tz_str)
             ELSE end_utc
    ELSE end_utc

\* The command line: the tokens of one "create" or "list week" command and
\* what handleCreate and handleListWeek compute from them before they call the
\* service.
FirstDate == [year |-> 2024, month |-> 2, day |-> 26]
BadDate == [year |-> 2024, month |-> 13, day |-> 1]

\* the date i days after FirstDate
dateAfter(i) ==
    formatDate(gmtime((daysSinceEpoch(FirstDate.year, FirstDate.month, FirstDate.day) + i)
                      * SecondsPerDay))

Dates == {dateAfter(i) : i \in 0..MaxDay}
ClockTimes == {[hour |-> h, minute |-> m] : h \in {1, 5, 16, 22}, m \in {0, 30}}
Zones == {"UTC", "IST", "PST"}

InitCli ==
    /\ InitService
    /\ demo = [NoDemo EXCEPT !.phase = "cli"]
    /\ \E d \in Dates \cup {BadDate}, st \in ClockTimes, et \in ClockTimes, tz \in Zones :
          cli = [NoCli EXCEPT !.step = "tokens", !.date = d, !.start_time = st,
                              !.end_time = et, !.tz = tz]

\* handleCreate: "Convert to UTC", and the error return
HandleCreateConvert ==
    /\ cli.step = "tokens"
    /\ isValidTimezone(cli.tz)
    /\ LET start_utc == localToUTC(cli.date, cli.start_time, cli.tz)
           end_utc == localToUTC(cli.date, cli.end_time, cli.tz)
       IN  cli' = IF start_utc = 0 - 1 \/ end_utc = 0 - 1
                  THEN [cli EXCEPT !.step = "error"]
                  ELSE [cli EXCEPT !.step = "converted", !.start_utc = start_utc,
                                   !.end_utc = end_utc, !.first_end_utc = end_utc]
    /\ UNCHANGED <<events_, next_event_id_, calendar_mutex_, pc, arg, local, ret, demo, seen,
                   issued>>

\* handleCreate: the roll-over of the end; the instants are then passed to
\* createEvent
HandleCreateRollover ==
    /\ cli.step = "converted"
    /\ cli' = [cli EXCEPT !.step = "create_call",
                          !.end_utc = rolledEnd(cli.start_utc, cli.end_utc, cli.end_time,
                                                cli.tz)]
    /\ UNCHANGED <<events_, next_event_id_, calendar_mutex_, pc, arg, local, ret, demo, seen,
                   issued>>

\* handleListWeek: the week bounds are computed and passed to getWeeklyEvents,
\* or the error is reported
HandleListWeek ==
    /\ cli.step = "tokens"
    /\ isValidTimezone(cli.tz)
    /\ LET w == calculateWeekBounds(cli.date, cli.tz)
       IN  cli' = IF w.week_start_utc = 0 - 1
                  THEN [cli EXCEPT !.step = "error"]
                  ELSE [cli EXCEPT !.step = "weekly_call",
                                   !.week_start_utc = w.week_start_utc,
                                   !.week_end_utc = w.week_end_utc]
    /\ UNCHANGED <<events_, next_event_id_, calendar_mutex_, pc, arg, local, ret, demo, seen,
                   issued>>

NextCli ==
    \/ HandleCreateConvert
    \/ HandleCreateRollover
    \/ HandleListWeek

SpecCli == InitCli /\ [][NextCli]_vars

\* =====================================================================
\* Properties
\* =====================================================================
Stored(ev) == {ev[i] : i \in 1..Len(ev)}

\* some event of ev intersects [s, e): the scan of the whole store
fullScan(ev, s, e) == \E i \in 1..Len(ev) : s < ev[i].end_utc /\ e > ev[i].start_utc

pairwiseDisjoint(ev) ==
    \A i, j \in 1..Len(ev) :
        i # j => ~(ev[i].start_utc < ev[j].end_utc /\ ev[j].start_utc < ev[i].end_utc)

wellFormed(ev) == \A i \in 1..Len(ev) : ev[i].start_utc < ev[i].end_utc

inCreate(t) == arg[t].op = "createEvent"

\* positions at which a thread reads or writes events_ or next_event_id_
Guarded == {"create_check", "create_checked", "create_insert", "delete_find",
            "delete_found", "weekly_collect", "all_collect", "unlock"}

\* C1: in every reachable state, under every interleaving of the four
\* operations, no two distinct stored events overlap.
NonOverlap == pairwiseDisjoint(events_)

\* two threads have each inserted an event, and the two events touch
NonOverlapWitness ==
    /\ Len(events_) = 2
    /\ events_[1].end_utc = events_[2].start_utc
    /\ pc[1] = "returned" /\ inCreate(1) /\ ret[1].int # Failure
    /\ pc[2] = "unlock" /\ inCreate(2) /\ ret[2].int # Failure

\* C3: from the conflict check to the insertion a createEvent call owns the
\* mutex, no other thread is at a step that reads or writes the event set or
\* the counter, and the store and the counter are what the call found when it
\* took the lock (the counter advanced only by its own allocation).
CheckThenInsertAtomic ==
    \A t \in AllThreads :
        pc[t] \in {"create_check", "create_checked", "create_insert"} =>
            /\ calendar_mutex_ = t
            /\ \A u \in AllThreads \ {t} : pc[u] \notin Guarded
            /\ events_ = seen[t].events
            /\ IF pc[t] = "create_insert"
               THEN /\ next_event_id_ = seen[t].next + 1
                    /\ local[t].event_id = seen[t].next
               ELSE next_event_id_ = seen[t].next

\* a thread is about to insert while the other waits for the mutex to delete
\* a stored event
CheckThenInsertWitness ==
    \E t, u \in Threads :
        /\ t # u
        /\ pc[t] = "create_insert"
        /\ pc[u] = "delete_lock"
        /\ \E i \in 1..Len(events_) : events_[i].id = arg[u].event_id

\* C2: when the two threads of the demonstration race to create overlapping
\* valid intervals that conflict with nothing stored before, exactly one call
\* returns an identifier and the other -1, and exactly one of the two events
\* is in the store afterwards, carrying the identifier returned.
demoRaceIsFree ==
    /\ \A t \in {1, 2} : arg[t].start_utc < arg[t].end_utc
    /\ arg[1].start_utc < arg[2].end_utc /\ arg[2].start_utc < arg[1].end_utc
    /\ \A t \in {1, 2} : ~fullScan(demo.before, arg[t].start_utc, arg[t].end_utc)

RaceOneWinner ==
    (demo.phase = "joined" /\ demoRaceIsFree) =>
        /\ demo.success_count = 1
        /\ demo.failure_count = 1
        /\ \E w, l \in {1, 2} :
              /\ w # l
              /\ ret[w].int # Failure
              /\ ret[l].int = Failure
              /\ Stored(events_) = Stored(demo.before) \cup
                    {Event(ret[w].int, arg[w].title, arg[w].start_utc, arg[w].end_utc)}
              /\ Len(events_) = Len(demo.before) + 1

\* the race was run with different clock readings next to a stored event
\* that touches both intervals, and the second thread won
RaceOneWinnerWitness ==
    /\ demo.phase = "joined"
    /\ demoRaceIsFree
    /\ Len(demo.before) >= 1
    /\ arg[1].start_utc # arg[2].start_utc
    /\ ret[2].int # Failure

\* C4: on a store of pairwise disjoint, well-formed events the result of
\* hasConflict for a candidate [s, e) with s < e, which looks at the insertion
\* position and the one before, equals that of a scan of the whole store.
NeighbourCheckExact ==
    \A t \in AllThreads :
        (/\ pc[t] = "create_checked"
         /\ arg[t].start_utc < arg[t].end_utc
         /\ pairwiseDisjoint(events_) /\ wellFormed(events_)) =>
            local[t].conflict = fullScan(events_, arg[t].start_utc, arg[t].end_utc)

\* three events are stored and the candidate overlaps only the event before
\* its insertion position
NeighbourCheckWitness ==
    \E t \in AllThreads :
        /\ pc[t] = "create_checked"
        /\ Len(events_) = 3
        /\ local[t].conflict
        /\ \E i \in 1..Len(events_) :
              /\ events_[i].start_utc < arg[t].start_utc
              /\ arg[t].start_utc < events_[i].end_utc
              /\ \A j \in 1..Len(events_) :
                    j # i => ~(arg[t].start_utc < events_[j].end_utc
                               /\ arg[t].end_utc > events_[j].start_utc)

\* C5: getWeeklyEvents returns, for every rangeStart and rangeEnd, exactly the
\* stored events E with E.start < rangeEnd and E.end > rangeStart, each once,
\* in ascending start order.
RangeQueryExact ==
    \A t \in AllThreads :
        (pc[t] = "unlock" /\ arg[t].op = "getWeeklyEvents") =>
            LET r == ret[t].list IN
            /\ Stored(r) = {E \in Stored(events_) :
                              E.start_utc < arg[t].end_utc /\ E.end_utc > arg[t].start_utc}
            /\ \A i, j \in 1..Len(r) : i < j => r[i].start_utc < r[j].start_utc

\* C6: a valid candidate that touches a stored event at a boundary, on either
\* side, and overlaps no stored event is created: the call returns an
\* identifier and the event is in the store.
touches(ev, s, e) == \E i \in 1..Len(ev) : ev[i].end_utc = s \/ ev[i].start_utc = e

BoundaryTouchAccepted ==
    \A t \in AllThreads :
        (/\ pc[t] = "unlock" /\ inCreate(t)
         /\ arg[t].start_utc < arg[t].end_utc
         /\ touches(seen[t].events, arg[t].start_utc, arg[t].end_utc)
         /\ ~fullScan(seen[t].events, arg[t].start_utc, arg[t].end_utc)) =>
            /\ ret[t].int # Failure
            /\ Event(ret[t].int, arg[t].title, arg[t].start_utc, arg[t].end_utc)
                  \in Stored(events_)

\* an event was created between two stored events, touching both
BoundaryTouchWitness ==
    \E t \in AllThreads :
        /\ pc[t] = "unlock" /\ inCreate(t)
        /\ ret[t].int # Failure
        /\ \E i, j \in 1..Len(seen[t].events) :
              /\ seen[t].events[i].end_utc = arg[t].start_utc
              /\ seen[t].events[j].start_utc = arg[t].end_utc

\* C7: a valid createEvent that finds a stored event overlapping its interval
\* when it takes the lock returns -1 with the store exactly as it found it,
\* and no longer owns the mutex once it has returned.
ConflictRefused ==
    \A t \in AllThreads :
        /\ (/\ pc[t] = "unlock" /\ inCreate(t)
            /\ arg[t].start_utc < arg[t].end_utc
            /\ fullScan(seen[t].events, arg[t].start_utc, arg[t].end_utc)) =>
               /\ ret[t].int = Failure
               /\ events_ = seen[t].events
        /\ pc[t] = "returned" => calendar_mutex_ # t

\* a create was refused for a conflict while the other thread waits to query
ConflictRefusedWitness ==
    \E t, u \in Threads :
        /\ t # u
        /\ pc[t] = "unlock" /\ inCreate(t)
        /\ ret[t].int = Failure
        /\ Len(events_) >= 1
        /\ pc[u] = "weekly_lock"

\* C8: a createEvent call with start >= end is never blocked at its
\* validation, whoever owns the mutex, and its next step returns -1 and
\* leaves the mutex, the event set and the identifier counter as they are.
InvalidRejectedBeforeGuard ==
    [][\A t \in AllThreads :
          (pc[t] = "create_validate" /\ mayRun(t)
           /\ arg[t].start_utc >= arg[t].end_utc) =>
              /\ ENABLED CreateValidate(t)
              /\ pc'[t] # pc[t] =>
                    /\ pc'[t] = "returned"
                    /\ ret'[t].int = Failure
                    /\ UNCHANGED <<events_, next_event_id_, calendar_mutex_>>]_vars

\* an empty interval was rejected while the other thread, between its
\* conflict check and its insertion, owns the mutex
InvalidRejectedWitness ==
    \E t, u \in Threads :
        /\ t # u
        /\ pc[t] = "returned" /\ inCreate(t)
        /\ arg[t].start_utc = arg[t].end_utc
        /\ ret[t].int = Failure
        /\ pc[u] = "create_insert" /\ calendar_mutex_ = u

\* C9: deleteEvent of an identifier some stored event carries returns true
\* and removes that event and nothing else, the others keeping their order;
\* of any other identifier (zero, negative, not issued, deleted) it returns
\* false and leaves the store as it was.
DeletionCorrect ==
    \A t \in AllThreads :
        (pc[t] = "unlock" /\ arg[t].op = "deleteEvent") =>
            LET before == seen[t].events
                hit == {i \in 1..Len(before) : before[i].id = arg[t].event_id}
            IN  IF hit # {}
                THEN /\ ret[t].bool
                     /\ Cardinality(hit) = 1
                     /\ Len(events_) = Len(before) - 1
                     /\ \A i \in 1..Len(events_) :
                           events_[i] = IF \E h \in hit : h <= i
                                        THEN before[i + 1]
                                        ELSE before[i]
                ELSE /\ ~ret[t].bool
                     /\ events_ = before

\* the first of three stored events was deleted
DeletionWitness ==
    \E t \in AllThreads :
        /\ pc[t] = "unlock" /\ arg[t].op = "deleteEvent"
        /\ ret[t].bool
        /\ Len(seen[t].events) = 3
        /\ seen[t].events[1].id = arg[t].event_id
        /\ Len(events_) = 2

\* C10: the identifiers issued start at 1 and strictly increase, whatever was
\* deleted in between, so none is issued twice, and no two stored events
\* carry the same identifier.
IdentifiersIncrease ==
    /\ Len(issued) > 0 => issued[1] = 1
    /\ \A i, j \in 1..Len(issued) : i < j => issued[i] < issued[j]
    /\ \A i, j \in 1..Len(events_) : i # j => events_[i].id # events_[j].id
    /\ \A i \in 1..Len(events_) : \E k \in 1..Len(issued) : issued[k] = events_[i].id

\* the first event was deleted while the second create waited for the lock,
\* and the second event, on the same interval, carries identifier 2
IdentifiersWitness ==
    /\ Len(issued) = 2
    /\ Len(events_) = 1
    /\ events_[1].id = 2
    /\ \E t, u \in Threads :
          /\ t # u
          /\ pc[t] = "unlock" /\ inCreate(t) /\ ret[t].int = 2
          /\ pc[u] = "returned" /\ arg[u].op = "deleteEvent" /\ arg[u].event_id = 1
          /\ ret[u].bool

\* positions at which a thread reads or writes next_event_id_ through the
\* public allocator
Allocating == {"nextid_read", "nextid_write"}

\* C11: every thread that reads or writes the event set or the identifier
\* counter through a public operation holds the mutex, so that the allocator
\* runs only under the guard and at most one thread is at the shared state.
SingleGuard ==
    \A t \in AllThreads :
        pc[t] \in Guarded \cup Allocating =>
            /\ calendar_mutex_ = t
            /\ \A u \in AllThreads \ {t} : pc[u] \notin Guarded \cup Allocating

Waiting == {"create_lock", "delete_lock", "weekly_lock", "all_lock"}

inCall(t) == pc[t] \notin {"idle", "returned", "finished"}

\* no call takes the mutex while it holds it, a call that has returned holds
\* no mutex, and the threads are never all blocked
LockDiscipline ==
    /\ \A t \in AllThreads : pc[t] \in Waiting => calendar_mutex_ # t
    /\ \A t \in AllThreads : ~inCall(t) => calendar_mutex_ # t
    /\ \E t \in Threads : ~(pc[t] \in Waiting /\ ~lockAcquirable(t))

ascending(list) == \A i \in 1..(Len(list) - 1) : EventComparator(list[i], list[i + 1])

\* C13: getAllEvents returns every event stored while it holds the mutex, each
\* exactly once and nothing else, in ascending order of (start, identifier).
SnapshotComplete ==
    \A t \in AllThreads :
        pc[t] = "unlock" /\ arg[t].op = "getAllEvents" =>
            /\ Stored(ret[t].list) = Stored(seen[t].events)
            /\ Stored(ret[t].list) = Stored(events_)
            /\ Len(ret[t].list) = Cardinality(Stored(events_))
            /\ ascending(ret[t].list)

\* a snapshot of two events whose order is not the order of their creation
SnapshotCompleteWitness ==
    \E t \in AllThreads :
        /\ pc[t] = "unlock" /\ arg[t].op = "getAllEvents"
        /\ Len(ret[t].list) >= 2
        /\ ret[t].list[1].id > ret[t].list[2].id

\* C15: in every reachable state every stored event has start < end; a call
\* with start >= end is turned away before it reaches the mutex.
WellFormedStore ==
    /\ wellFormed(events_)
    /\ \A t \in AllThreads :
          inCreate(t) /\ pc[t] \in Waiting \cup Guarded =>
              arg[t].start_utc < arg[t].end_utc

\* events are stored and a call with start >= end has been refused
WellFormedStoreWitness ==
    \E t \in AllThreads :
        /\ Len(events_) >= 1
        /\ pc[t] = "returned" /\ inCreate(t)
        /\ arg[t].start_utc >= arg[t].end_utc
        /\ ret[t].int = Failure

\* the step is the erase of a successful deleteEvent(id)
erasedBy(t, id) ==
    /\ pc[t] = "delete_found" /\ pc'[t] = "unlock"
    /\ arg[t].event_id = id
    /\ ret'[t].bool

\* the step is the insert of a createEvent that puts x into the store
insertedBy(t, x) ==
    /\ pc[t] = "create_insert" /\ pc'[t] = "unlock"
    /\ x = Event(ret'[t].int, arg[t].title, arg[t].start_utc, arg[t].end_utc)

\* C16: a stored event keeps its identifier, title, start and end from its
\* insertion to its deletion: every step leaves every stored event in the
\* store as it is, unless the step is a successful deleteEvent of that event's
\* identifier; whatever is new in the store is the event of a createEvent and
\* carries an identifier no stored event has.
EventsImmutable ==
    [][ /\ \A x \in Stored(events_) :
              x \in Stored(events_') \/ \E t \in AllThreads : erasedBy(t, x.id)
        /\ \A x \in Stored(events_') :
              \/ x \in Stored(events_)
              \/ /\ \A y \in Stored(events_) : y.id # x.id
                 /\ \E t \in AllThreads : insertedBy(t, x)
      ]_vars

\* a deleteEvent has removed one of two stored events and the other is there
\* as before
EventsImmutableWitness ==
    \E t \in AllThreads :
        /\ pc[t] = "unlock" /\ arg[t].op = "deleteEvent" /\ ret[t].bool
        /\ Len(seen[t].events) = 2
        /\ Len(events_) = 1
        /\ events_[1] \in Stored(seen[t].events)
        /\ events_[1].id # arg[t].event_id

\* the step is the insert of a createEvent that returns an identifier
createdStep(t) ==
    pc[t] = "create_insert" /\ pc'[t] = "unlock" /\ ret'[t].int # Failure

\* the step is the erase of a deleteEvent that returns true
deletedStep(t) ==
    pc[t] = "delete_found" /\ pc'[t] = "unlock" /\ ret'[t].bool

\* C14: getAllEvents returns the stored sequence as it is while the call holds
\* the mutex, and the stored sequence changes only in the step of a successful
\* createEvent or deleteEvent; so two getAllEvents calls with no such step
\* between them return identical sequences, whatever range queries, failed
\* creates and failed deletes any thread runs in between.
IdempotentRead ==
    [][ /\ events_' # events_ =>
              \E t \in AllThreads : createdStep(t) \/ deletedStep(t)
        /\ \A t \in AllThreads :
              pc'[t] = "unlock" /\ arg'[t].op = "getAllEvents" =>
                  ret'[t].list = events_'
      ]_vars

\* a getAllEvents is returning the sequence that an earlier getAllEvents of the
\* other thread returned
IdempotentReadWitness ==
    \E t, u \in AllThreads :
        /\ t # u
        /\ pc[u] = "returned" /\ arg[u].op = "getAllEvents"
        /\ pc[t] = "unlock" /\ arg[t].op = "getAllEvents"
        /\ Len(ret[u].list) >= 1
        /\ ret[t].list = ret[u].list

\* what the call of thread t has returned and left behind
outcome(t) ==
    [ret |-> CASE arg[t].op = "createEvent" -> <<ret[t].int>>
               [] arg[t].op = "deleteEvent" -> <<ret[t].bool>>
               [] OTHER -> ret[t].list,
     events |-> events_,
     next |-> next_event_id_]

\* what the call of thread t returns and leaves behind when it runs alone, from
\* its lock to its return, on the store and counter it found when it locked
runAlone(t) ==
    LET ev == seen[t].events
        n == seen[t].next
        a == arg[t]
        it == findEventById(ev, a.event_id)
    IN  CASE a.op = "createEvent" ->
                IF hasConflict(ev, a.start_utc, a.end_utc)
                THEN [ret |-> <<Failure>>, events |-> ev, next |-> n]
                ELSE [ret |-> <<n>>,
                      events |-> insert(ev, Event(n, a.title, a.start_utc, a.end_utc)),
                      next |-> n + 1]
          [] a.op = "deleteEvent" ->
                IF it # Len(ev) + 1
                THEN [ret |-> <<TRUE>>, events |-> erase(ev, it), next |-> n]
                ELSE [ret |-> <<FALSE>>, events |-> ev, next |-> n]
          [] a.op = "getWeeklyEvents" ->
                [ret |-> weeklyEvents(ev, a.start_utc, a.end_utc), events |-> ev, next |-> n]
          [] OTHER ->
                [ret |-> allEvents(ev, 1), events |-> ev, next |-> n]

\* C17: the calls take effect one after another in the order in which they
\* take the mutex: a call at a guarded step owns the mutex and is the only one
\* there, it starts from the store and counter as they were when it locked,
\* and what it returns and leaves behind is what it returns and leaves behind
\* when run alone on that store; no call sees a store between the steps of
\* another call.
Linearizable ==
    \A t \in AllThreads :
        /\ pc[t] \in Guarded =>
              /\ calendar_mutex_ = t
              /\ \A u \in AllThreads \ {t} : pc[u] \notin Guarded
        /\ pc[t] \in {"create_check", "delete_find", "weekly_collect", "all_collect"} =>
              events_ = seen[t].events /\ next_event_id_ = seen[t].next
        /\ pc[t] = "unlock" => outcome(t) = runAlone(t)

\* a deleteEvent removes the event that a createEvent of the other thread has
\* inserted and returned
LinearizableWitness ==
    \E t, u \in AllThreads :
        /\ t # u
        /\ pc[u] = "returned" /\ inCreate(u) /\ ret[u].int # Failure
        /\ pc[t] = "unlock" /\ arg[t].op = "deleteEvent"
        /\ arg[t].event_id = ret[u].int
        /\ ret[t].bool

\* C18 (logarithmic conflict detection) is a statement about running time and
\* has no formula here.

\* C19: createEvent(title, s, e) returns an identifier exactly when s < e and
\* no event stored when it took the mutex intersects [s, e); then the store is
\* the store it found plus one event with the returned identifier and the
\* given title, s and e; otherwise the store is the store it found.
CreateExact ==
    \A t \in AllThreads :
        inCreate(t) =>
            LET s == arg[t].start_utc
                e == arg[t].end_utc
                found == seen[t].events
                free == ~fullScan(found, s, e)
                new == [id |-> ret[t].int, title |-> arg[t].title,
                        start_utc |-> s, end_utc |-> e]
            IN  /\ pc[t] = "returned" /\ s >= e => ret[t].int = Failure
                /\ pc[t] = "unlock" =>
                      /\ s < e
                      /\ ret[t].int # Failure <=> free
                      /\ free => /\ ret[t].int >= 1
                                 /\ new \notin Stored(found)
                                 /\ Stored(events_) = Stored(found) \cup {new}
                                 /\ Len(events_) = Len(found) + 1
                      /\ ~free => events_ = found

\* a createEvent has been accepted into a store that held two events, between
\* the two
CreateExactWitness ==
    \E t \in AllThreads :
        /\ inCreate(t) /\ pc[t] = "unlock" /\ ret[t].int # Failure
        /\ Len(seen[t].events) = 2
        /\ Len(events_) = 3
        /\ events_[2].id = ret[t].int

\* the store ev with every identifier replaced by k
relabel(ev, k) == [i \in 1..Len(ev) |-> [ev[i] EXCEPT !.id = k]]

\* C20: in every reachable state the stored events, in the order of the
\* container, have strictly increasing starts and each ends no later than the
\* next starts; so the comparator orders any two stored events by their starts
\* alone, and the conflict check of a createEvent gives the same answer
\* whatever identifiers the stored events carry.
SortedChain ==
    /\ \A i \in 1..(Len(events_) - 1) :
          /\ events_[i].start_utc < events_[i + 1].start_utc
          /\ events_[i].end_utc <= events_[i + 1].start_utc
    /\ \A i, j \in 1..Len(events_) :
          i # j =>
              /\ events_[i].start_utc # events_[j].start_utc
              /\ EventComparator(events_[i], events_[j])
                     = (events_[i].start_utc < events_[j].start_utc)
    /\ \A t \in AllThreads :
          pc[t] = "create_checked" =>
              \A k \in {0 - 1, 0, next_event_id_} :
                  local[t].conflict
                      = hasConflict(relabel(events_, k), arg[t].start_utc, arg[t].end_utc)

\* the store holds two touching events, the later one created first, and a
\* createEvent that starts where a stored event starts has been checked
SortedChainWitness ==
    \E t \in AllThreads :
        /\ Len(events_) >= 2
        /\ events_[1].id > events_[2].id
        /\ events_[1].end_utc = events_[2].start_utc
        /\ pc[t] = "create_checked"
        /\ \E i \in 1..Len(events_) : events_[i].start_utc = arg[t].start_utc
        /\ local[t].conflict

\* C21: with only the four operations called, the counter advances only in a
\* createEvent that succeeds: the k-th identifier issued is k, the counter is
\* one more than the number issued, a successful createEvent returns the
\* counter it found and leaves it one higher, and every other call leaves the
\* counter as it found it.
NoIdentifierWasted ==
    /\ \A k \in 1..Len(issued) : issued[k] = k
    /\ next_event_id_ = Len(issued) + 1
    /\ \A t \in AllThreads :
          pc[t] = "unlock" =>
              IF inCreate(t) /\ ret[t].int # Failure
              THEN /\ ret[t].int = seen[t].next
                   /\ ret[t].int = Len(issued)
                   /\ next_event_id_ = seen[t].next + 1
              ELSE next_event_id_ = seen[t].next

\* the second successful createEvent returns 2 after the first event was
\* deleted and while a createEvent of the other thread has been refused
NoIdentifierWastedWitness ==
    \E t, u \in Threads :
        /\ t # u
        /\ pc[t] = "unlock" /\ inCreate(t) /\ ret[t].int = 2
        /\ Len(events_) = 1
        /\ pc[u] = "returned" /\ inCreate(u) /\ ret[u].int = Failure

\* thread u has returned true from deleteEvent and has not called since
hasDeleted(u) == pc[u] = "returned" /\ arg[u].op = "deleteEvent" /\ ret[u].bool

\* C22: after deleteEvent(id) has returned true for an event on [s, e), that
\* event is not in the store a later createEvent finds; a createEvent for an
\* interval that intersects the deleted event and no event of the store it
\* finds succeeds, in particular one for [s, e) itself, and its event carries
\* an identifier greater than id.
DeletionFrees ==
    \A t, u \in AllThreads :
        t # u /\ hasDeleted(u) /\ inCreate(t) /\ pc[t] = "unlock" =>
            LET d == local[u].erased
                a == arg[t]
            IN  /\ d.id = arg[u].event_id
                /\ \A x \in Stored(seen[t].events) : x.id # d.id
                /\ ret[t].int # Failure => ret[t].int > d.id
                /\ /\ a.start_utc < d.end_utc /\ a.end_utc > d.start_utc
                   /\ ~fullScan(seen[t].events, a.start_utc, a.end_utc)
                   => /\ ret[t].int # Failure
                      /\ \E x \in Stored(events_) :
                            /\ x.id = ret[t].int
                            /\ x.start_utc = a.start_utc
                            /\ x.end_utc = a.end_utc

\* event 1 was deleted and a createEvent on its interval has been given
\* identifier 2
DeletionFreesWitness ==
    \E t, u \in Threads :
        /\ t # u /\ hasDeleted(u) /\ inCreate(t) /\ pc[t] = "unlock"
        /\ local[u].erased.id = 1
        /\ arg[t].start_utc = local[u].erased.start_utc
        /\ arg[t].end_utc = local[u].erased.end_utc
        /\ ret[t].int = 2

\* minutes since local midnight
timeOfDay(time_str) == time_str.hour * 60 + time_str.minute

\* the UTC instant of 00:00 local time on the Monday on or before the local
\* date date_str in zone tz_str (day 0, 1 January 1970, was a Thursday)
mondayMidnight(date_str, tz_str) ==
    LET n == daysSinceEpoch(date_str.year, date_str.month, date_str.day)
        sinceMonday == (n + 3) % 7
    IN  (n - sinceMonday) * SecondsPerDay - getOffsetSeconds(tz_str)

\* C23: for every valid date and every supported zone the week bounds passed
\* to getWeeklyEvents are 00:00 local time of the Monday on or before the date
\* and the instant seven days later.
WeekBoundsLocal ==
    cli.step = "weekly_call" =>
        /\ cli.week_start_utc = mondayMidnight(cli.date, cli.tz)
        /\ cli.week_end_utc = cli.week_start_utc + 7 * SecondsPerDay

\* C24: when the end time of day is not after the start time of day, the end
\* instant passed to createEvent is the end first computed plus one day, so it
\* is after the start and less than a day after it.
RolloverOneDay ==
    cli.step = "create_call" /\ timeOfDay(cli.end_time) <= timeOfDay(cli.start_time) =>
        /\ cli.end_utc = cli.first_end_utc + SecondsPerDay
        /\ cli.start_utc < cli.end_utc
        /\ cli.end_utc - cli.start_utc <= SecondsPerDay

====
